---- MODULE Spec2Model ----
(***************************************************************************)
(* A model of vm/compiler/Frontend.c, the front end of the Dalvik trace    *)
(* JIT: the instruction decoder (parseInsn), the boundary classifier       *)
(* (findBlockBoundary, isUnconditionalBranch), the trace builder           *)
(* (dvmCompileTrace) and the method builder (dvmCompileMethod).            *)
(*                                                                         *)
(* Conventions.  A pointer to a block is the block's position in the list  *)
(* of blocks (1-based), NULL is 0.  A Method pointer is the method's id in *)
(* MethodObjs, NULL is 0.  A 32-bit unsigned value is kept as the integer  *)
(* with the same bit pattern read as two's complement, so that             *)
(* curOffset + (int) displacement is ordinary addition and an unsigned     *)
(* comparison is ULess.                                                    *)
(***************************************************************************)
EXTENDS Integers, Sequences, FiniteSets, TLC

VARIABLES
    th,             \* per compiler thread: the locals of its dvmCompileTrace call
    compilationId,  \* the function-static counter of dvmCompileTrace
    gDvmJit,        \* the JIT globals read by dvmCompileTrace
    mb,             \* the locals of one dvmCompileMethod call
    pi,             \* one parseInsn call: the units at codePtr and the result
    cls             \* one findBlockBoundary call: its arguments and results

vars == <<th, compilationId, gDvmJit, mb, pi, cls>>

---------------------------------------------------------------------------
(* Bounds of the model.                                                    *)

MaxRuns == 2
MaxBudget == 3
MaxAttempts == 3
MaxEntries == 3
MaxMethodInsns == 3
MaxNodes == 5
MaxOffset == 2
MaxLoopRuns == 3

---------------------------------------------------------------------------
(* Opcode numbers (libdex/OpCode.h) of the opcodes Frontend.c names, and   *)
(* of the few others the sample methods use.                               *)

OP_NOP == 0
OP_MOVE == 1
OP_RETURN_VOID == 14
OP_RETURN == 15
OP_RETURN_WIDE == 16
OP_RETURN_OBJECT == 17
OP_FILL_ARRAY_DATA == 38
OP_THROW == 39
OP_GOTO == 40
OP_GOTO_16 == 41
OP_GOTO_32 == 42
OP_PACKED_SWITCH == 43
OP_SPARSE_SWITCH == 44
OP_IF_EQ == 50
OP_IF_NE == 51
OP_IF_LT == 52
OP_IF_GE == 53
OP_IF_GT == 54
OP_IF_LE == 55
OP_IF_EQZ == 56
OP_IF_NEZ == 57
OP_IF_LTZ == 58
OP_IF_GEZ == 59
OP_IF_GTZ == 60
OP_IF_LEZ == 61
OP_INVOKE_VIRTUAL == 110
OP_INVOKE_SUPER == 111
OP_INVOKE_DIRECT == 112
OP_INVOKE_STATIC == 113
OP_INVOKE_INTERFACE == 114
OP_INVOKE_VIRTUAL_RANGE == 116
OP_INVOKE_SUPER_RANGE == 117
OP_INVOKE_DIRECT_RANGE == 118
OP_INVOKE_STATIC_RANGE == 119
OP_INVOKE_INTERFACE_RANGE == 120
OP_INVOKE_VIRTUAL_QUICK == 248
OP_INVOKE_VIRTUAL_QUICK_RANGE == 249
OP_INVOKE_SUPER_QUICK == 250
OP_INVOKE_SUPER_QUICK_RANGE == 251

(* The signatures of the inline-data pseudo-instructions.                  *)
kPackedSwitchSignature == 256
kSparseSwitchSignature == 512
kArrayDataSignature == 768

ReturnOps == {OP_RETURN_VOID, OP_RETURN, OP_RETURN_WIDE, OP_RETURN_OBJECT}
GotoOps == {OP_GOTO, OP_GOTO_16, OP_GOTO_32}
IfOps == {OP_IF_EQ, OP_IF_NE, OP_IF_LT, OP_IF_GE, OP_IF_GT, OP_IF_LE}
IfzOps == {OP_IF_EQZ, OP_IF_NEZ, OP_IF_LTZ, OP_IF_GEZ, OP_IF_GTZ, OP_IF_LEZ}
SwitchOps == {OP_PACKED_SWITCH, OP_SPARSE_SWITCH}
VirtualInvokeOps ==
    {OP_INVOKE_VIRTUAL, OP_INVOKE_VIRTUAL_RANGE, OP_INVOKE_INTERFACE,
     OP_INVOKE_INTERFACE_RANGE, OP_INVOKE_VIRTUAL_QUICK,
     OP_INVOKE_VIRTUAL_QUICK_RANGE}
SuperInvokeOps == {OP_INVOKE_SUPER, OP_INVOKE_SUPER_RANGE}
StaticInvokeOps == {OP_INVOKE_STATIC, OP_INVOKE_STATIC_RANGE}
SuperQuickInvokeOps == {OP_INVOKE_SUPER_QUICK, OP_INVOKE_SUPER_QUICK_RANGE}
DirectInvokeOps == {OP_INVOKE_DIRECT, OP_INVOKE_DIRECT_RANGE}
InvokeOps ==
    VirtualInvokeOps \cup SuperInvokeOps \cup StaticInvokeOps
        \cup SuperQuickInvokeOps \cup DirectInvokeOps

---------------------------------------------------------------------------
(* The decode tables of libdex (gDvm.instrWidth, gDvm.instrFlags and       *)
(* dexDecodeInstruction), for the opcodes above.                           *)

Abs(n) == IF n < 0 THEN -n ELSE n

\* The signed reading of the low `bits` bits of n.
SignExtend(n, bits) ==
    LET m == n % (2 ^ bits)
    IN  IF m >= 2 ^ (bits - 1) THEN m - 2 ^ bits ELSE m

\* gDvm.instrWidth[opcode]: the width, in 16-bit code units.
InstrWidth(opcode) ==
    IF opcode \in {OP_NOP, OP_MOVE, OP_THROW, OP_GOTO} \cup ReturnOps THEN 1
    ELSE IF opcode \in {OP_GOTO_16} \cup IfOps \cup IfzOps THEN 2
    ELSE 3

\* dexGetInstrFlags(gDvm.instrFlags, opcode)
InstrFlags(opcode) ==
    IF opcode \in GotoOps THEN {"kInstrCanBranch", "kInstrUnconditional"}
    ELSE IF opcode \in IfOps \cup IfzOps
        THEN {"kInstrCanBranch", "kInstrCanContinue"}
    ELSE IF opcode \in SwitchOps THEN {"kInstrCanSwitch", "kInstrCanContinue"}
    ELSE IF opcode = OP_THROW THEN {"kInstrCanThrow"}
    ELSE IF opcode \in ReturnOps THEN {"kInstrCanReturn"}
    ELSE IF opcode \in InvokeOps
        THEN {"kInstrCanContinue", "kInstrCanThrow", "kInstrInvoke"}
    ELSE IF opcode = OP_FILL_ARRAY_DATA
        THEN {"kInstrCanContinue", "kInstrCanThrow"}
    ELSE {"kInstrCanContinue"}

\* The code unit at codePtr[k], codePtr being insns + pos (insns is 1-based
\* here); a read past the end of the array gives 0.
Unit(insns, pos, k) ==
    IF pos + k + 1 \in 1..Len(insns) THEN insns[pos + k + 1] ELSE 0

\* dexDecodeInstruction: opcode and the operand fields the front end reads.
\* A branch displacement is sign-extended, as the decoder does.
dexDecodeInstruction(insns, pos) ==
    LET instr == Unit(insns, pos, 0)
        opcode == instr % 256
        hi == instr \div 256
    IN  IF opcode = OP_GOTO
            THEN [opCode |-> opcode, vA |-> SignExtend(hi, 8), vB |-> 0, vC |-> 0]
        ELSE IF opcode = OP_GOTO_16
            THEN [opCode |-> opcode, vA |-> SignExtend(Unit(insns, pos, 1), 16),
                  vB |-> 0, vC |-> 0]
        ELSE IF opcode = OP_GOTO_32
            THEN [opCode |-> opcode,
                  vA |-> Unit(insns, pos, 1)
                             + SignExtend(Unit(insns, pos, 2), 16) * 65536,
                  vB |-> 0, vC |-> 0]
        ELSE IF opcode \in IfOps
            THEN [opCode |-> opcode, vA |-> hi % 16, vB |-> hi \div 16,
                  vC |-> SignExtend(Unit(insns, pos, 1), 16)]
        ELSE IF opcode \in IfzOps
            THEN [opCode |-> opcode, vA |-> hi,
                  vB |-> SignExtend(Unit(insns, pos, 1), 16), vC |-> 0]
        ELSE IF opcode \in InvokeOps
            THEN [opCode |-> opcode, vA |-> hi \div 16,
                  vB |-> Unit(insns, pos, 1), vC |-> Unit(insns, pos, 2)]
        ELSE IF opcode \in SwitchOps \cup {OP_FILL_ARRAY_DATA}
            THEN [opCode |-> opcode, vA |-> hi,
                  vB |-> Unit(insns, pos, 1)
                             + SignExtend(Unit(insns, pos, 2), 16) * 65536,
                  vC |-> 0]
        ELSE IF opcode = OP_MOVE
            THEN [opCode |-> opcode, vA |-> hi % 16, vB |-> hi \div 16, vC |-> 0]
        ELSE [opCode |-> opcode, vA |-> hi, vB |-> 0, vC |-> 0]

---------------------------------------------------------------------------
(* parseInsn: the width of the instruction at codePtr.                     *)

\* The width the three signature branches compute (lines 35-44), before
\* line 45 overwrites it; 0 stands for the uninitialised value left by an
\* unknown signature, which line 45 overwrites as well.
PseudoWidth(insns, pos) ==
    LET instr == Unit(insns, pos, 0)
    IN  IF instr = kPackedSwitchSignature THEN 4 + Unit(insns, pos, 1) * 2
        ELSE IF instr = kSparseSwitchSignature THEN 2 + Unit(insns, pos, 1) * 4
        ELSE IF instr = kArrayDataSignature
            THEN LET width == Unit(insns, pos, 1)
                     size == Unit(insns, pos, 2) + Unit(insns, pos, 3) * 65536
                 IN  4 + ((size * width) + 1) \div 2
        ELSE 0

parseInsn(insns, pos) ==
    LET instr == Unit(insns, pos, 0)
        opcode == instr % 256
    IN  IF opcode = OP_NOP /\ instr # 0
            THEN LET computed == PseudoWidth(insns, pos)
                     insnWidth == 0       \* line 45, after the if-chain
                 IN  insnWidth
            ELSE Abs(InstrWidth(opcode))

---------------------------------------------------------------------------
(* The methods of the sample program.  MethodObjs are the Method structs   *)
(* a call can resolve to; a caller's pResMethods and its superclass's      *)
(* vtable hold ids of MethodObjs.                                          *)

\* Method structs that calls resolve to: native or bytecode, the address of
\* the bytecode (calleeMethod->insns cast to unsigned int) and the vtable
\* index.
MethodObjs ==
    << [native |-> FALSE, insns |-> 4096, methodIndex |-> 1],
       [native |-> TRUE,  insns |-> 0,    methodIndex |-> 2] >>

\* Assemblers of the instruction formats (the inverse of dexDecodeInstruction).
Asm10x(op) == << op >>
Asm10t(op, disp) == << op + 256 * (disp % 256) >>
Asm20t(op, disp) == << op, disp % 65536 >>
Asm30t(op, disp) == << op, disp % 65536, (disp \div 65536) % 65536 >>
Asm21t(op, reg, disp) == << op + 256 * reg, disp % 65536 >>
Asm22t(op, regA, regB, disp) == << op + 256 * (regA + 16 * regB), disp % 65536 >>
Asm31t(op, reg, disp) ==
    << op + 256 * reg, disp % 65536, (disp \div 65536) % 65536 >>
Asm35c(op, ref) == << op, ref, 0 >>

\* 0: move  1: if-eqz +3 (to 4)  3: goto -3 (to 0)  4: return-void
LoopCode ==
    Asm10x(OP_MOVE) \o Asm21t(OP_IF_EQZ, 0, 3) \o Asm10t(OP_GOTO, -3)
        \o Asm10x(OP_RETURN_VOID)

\* 0: invoke-static #1 (bytecode)  3: invoke-virtual #1  6: invoke-direct #2
\* (native)  9: return
CallCode ==
    Asm35c(OP_INVOKE_STATIC, 1) \o Asm35c(OP_INVOKE_VIRTUAL, 1)
        \o Asm35c(OP_INVOKE_DIRECT, 2) \o Asm10x(OP_RETURN)

\* 0: packed-switch +4 (table at 4)  3: throw  4: packed-switch table with
\* one entry (signature, size, first key, one target)
SwitchCode ==
    Asm31t(OP_PACKED_SWITCH, 0, 4) \o Asm10x(OP_THROW)
        \o << kPackedSwitchSignature, 1, 0, 0, 3, 0 >>

\* 0: if-ne +3 (to 3)  2: move  3: goto/32 +0 (to itself)  6: invoke-super #1
\* 9: return-object
MixedCode ==
    Asm22t(OP_IF_NE, 0, 1, 3) \o Asm10x(OP_MOVE) \o Asm30t(OP_GOTO_32, 0)
        \o Asm35c(OP_INVOKE_SUPER, 1) \o Asm10x(OP_RETURN_OBJECT)

\* 0: invoke-static #1 (bytecode)  3: goto -3 (to 0)
CallLoopCode == Asm35c(OP_INVOKE_STATIC, 1) \o Asm10t(OP_GOTO, -3)

SampleMethods ==
    << [descriptor |-> "LFoo;", name |-> "loop", insns |-> LoopCode,
        pResMethods |-> <<1, 2>>, superVtable |-> <<1, 2>>],
       [descriptor |-> "LFoo;", name |-> "call", insns |-> CallCode,
        pResMethods |-> <<1, 2>>, superVtable |-> <<1, 2>>],
       [descriptor |-> "LBar;", name |-> "pick", insns |-> SwitchCode,
        pResMethods |-> <<1, 2>>, superVtable |-> <<1, 2>>],
       [descriptor |-> "LBar;", name |-> "loop", insns |-> MixedCode,
        pResMethods |-> <<1, 2>>, superVtable |-> <<2, 1>>],
       [descriptor |-> "LBar;", name |-> "again", insns |-> CallLoopCode,
        pResMethods |-> <<1, 2>>, superVtable |-> <<1, 2>>] >>

---------------------------------------------------------------------------
(* findBlockBoundary and isUnconditionalBranch.                            *)

\* calleeMethod of the statically bound invokes (lines 86-89, 100-101,
\* 112-113, 124-125).
ResolveCallee(caller, insn) ==
    LET op == insn.dalvikInsn.opCode
        vB == insn.dalvikInsn.vB
    IN  IF op \in SuperInvokeOps
            THEN caller.superVtable[MethodObjs[caller.pResMethods[vB]].methodIndex]
        ELSE IF op \in SuperQuickInvokeOps THEN caller.superVtable[vB]
        ELSE caller.pResMethods[vB]

\* The result, and the values left in *target, *isInvoke and *callee, which
\* the call leaves as they were (target, isInvoke, callee) where the code
\* does not assign them.
findBlockBoundary(caller, insn, curOffset, target, isInvoke, callee) ==
    LET op == insn.dalvikInsn.opCode
    IN  IF op \in ReturnOps \cup {OP_THROW} \cup VirtualInvokeOps
            THEN [ret |-> TRUE, target |-> target, isInvoke |-> TRUE,
                  callee |-> callee]
        ELSE IF op \in SuperInvokeOps \cup StaticInvokeOps
                    \cup SuperQuickInvokeOps \cup DirectInvokeOps
            THEN LET calleeMethod == ResolveCallee(caller, insn)
                 IN  [ret |-> TRUE,
                      target |-> IF ~MethodObjs[calleeMethod].native
                                     THEN MethodObjs[calleeMethod].insns
                                     ELSE target,
                      isInvoke |-> TRUE, callee |-> calleeMethod]
        ELSE IF op \in GotoOps
            THEN [ret |-> TRUE, target |-> curOffset + insn.dalvikInsn.vA,
                  isInvoke |-> isInvoke, callee |-> callee]
        ELSE IF op \in IfOps
            THEN [ret |-> TRUE, target |-> curOffset + insn.dalvikInsn.vC,
                  isInvoke |-> isInvoke, callee |-> callee]
        ELSE IF op \in IfzOps
            THEN [ret |-> TRUE, target |-> curOffset + insn.dalvikInsn.vB,
                  isInvoke |-> isInvoke, callee |-> callee]
        ELSE [ret |-> FALSE, target |-> target, isInvoke |-> isInvoke,
              callee |-> callee]

\* A predicate that holds for the jumps only.
isJump(insn) == insn.dalvikInsn.opCode \in GotoOps

isUnconditionalBranch(insn) ==
    insn.dalvikInsn.opCode \in ReturnOps \cup GotoOps

---------------------------------------------------------------------------
(* dvmCompileTrace: the locals of one call, as a record, and one operator  *)
(* per stage of the function giving the locals after the stage.            *)

Threads == {1, 2}

\* dvmCompilerNewBB(blockType): a zeroed BasicBlock of the given kind.
dvmCompilerNewBB(blockType) ==
    [id |-> 0, blockType |-> blockType, startOffset |-> 0, insns |-> << >>,
     taken |-> 0, fallThrough |-> 0, needFallThroughBranch |-> FALSE,
     containingMethod |-> 0]

\* memset(&cUnit, 0, sizeof(CompilationUnit))
ZeroCUnit ==
    [printMe |-> FALSE, allSingleStep |-> FALSE, numInsts |-> 0,
     halveInstCount |-> FALSE, numBlocks |-> 0, blockList |-> << >>]

\* dvmHashTableLookup(gDvmJit.methodTable, hash, key, strcmp, false) != NULL:
\* the table holds a string equal to key.
dvmHashTableLookup(table, key) == key \in table

\* A cascade that stops after the class descriptor.
MethodFoundNoName(table, method) ==
    dvmHashTableLookup(table, method.descriptor \o method.name)
        \/ dvmHashTableLookup(table, method.descriptor)

\* methodFound of lines 206-243: the three lookups, each tried only when the
\* one before it found nothing.
MethodFound(table, method) ==
    LET fullSignature == method.descriptor \o method.name
        first == dvmHashTableLookup(table, fullSignature)
    IN  IF first # FALSE THEN first
        ELSE LET second == dvmHashTableLookup(table, method.descriptor)
             IN  IF second # FALSE THEN second
                 ELSE dvmHashTableLookup(table, method.name)

\* cUnit after lines 199-265.  g.methodTable is a set of strings, g.hasTable
\* tells whether gDvmJit.methodTable is non-NULL.
FilterCUnit(g, method) ==
    LET c0 == [ZeroCUnit EXCEPT !.printMe = g.printMe]
    IN  IF g.hasTable
            THEN IF g.includeSelectedMethod # MethodFound(g.methodTable, method)
                     THEN [c0 EXCEPT !.allSingleStep = TRUE]
                     ELSE IF g.includeSelectedMethod = TRUE
                              THEN [c0 EXCEPT !.printMe = TRUE]
                              ELSE c0
            ELSE c0

\* Lines 188-275: the locals at the head of the decoding loop.
EnterTrace(s, g) ==
    LET run == s.desc.trace[1]
    IN  [s EXCEPT
            !.pc = "decode",
            !.cUnit = FilterCUnit(g, SampleMethods[s.desc.method]),
            !.currRun = 1,
            !.curOffset = run.startOffset,
            !.numInsts = run.numInsts,
            !.traceSize = 0,
            !.blocks = << [dvmCompilerNewBB("DALVIK_BYTECODE") EXCEPT
                              !.startOffset = run.startOffset, !.id = 0] >>,
            !.curBB = 1,
            !.numBlocks = 1]

\* dvmCompilerAppendMIR(bb, insn)
dvmCompilerAppendMIR(blocks, bb, insn) ==
    [blocks EXCEPT ![bb].insns = Append(@, insn)]

\* One iteration of the decoding loop, lines 281-313.  The loop is left
\* (pc = "resolve", curBB = startBB) on the instruction limit or at the end
\* of the last run.
DecodeOne(s) ==
    LET code == SampleMethods[s.desc.method].insns
        width == parseInsn(code, s.curOffset)
        insn == [offset |-> s.curOffset, width |-> width,
                 dalvikInsn |-> dexDecodeInstruction(code, s.curOffset)]
        s1 == [s EXCEPT !.traceSize = @ + width,
                        !.blocks = dvmCompilerAppendMIR(@, s.curBB, insn),
                        !.cUnit.numInsts = @ + 1]
        leave == [s1 EXCEPT !.pc = "resolve", !.curBB = 1]
    IN  IF s1.cUnit.numInsts >= s.numMaxInsts THEN leave
        ELSE IF s.numInsts - 1 = 0
            THEN IF s.desc.trace[s.currRun].runEnd THEN
                     [leave EXCEPT !.numInsts = 0]
                 ELSE LET next == s.desc.trace[s.currRun + 1]
                          newBB == [dvmCompilerNewBB("DALVIK_BYTECODE") EXCEPT
                                       !.id = s.numBlocks,
                                       !.startOffset = next.startOffset]
                      IN  [s1 EXCEPT !.blocks = Append(@, newBB),
                                     !.curBB = Len(s1.blocks) + 1,
                                     !.numBlocks = @ + 1,
                                     !.currRun = @ + 1,
                                     !.curOffset = next.startOffset,
                                     !.numInsts = next.numInsts]
        ELSE [s1 EXCEPT !.numInsts = @ - 1, !.curOffset = @ + width]

\* A search that takes in curBB and the blocks before it.
SearchLinkAll(blocks, curBB, offset, link) ==
    LET matches == {j \in 1..Len(blocks) : blocks[j].startOffset = offset}
    IN  IF matches = {} THEN link
        ELSE CHOOSE j \in matches : \A k \in matches : k <= j

\* The search of lines 339-346 for one offset: every block after curBB is
\* compared and each match overwrites the link, so the last match stays;
\* without a match the link keeps its value.
SearchLink(blocks, curBB, offset, link) ==
    LET matches == {j \in (curBB + 1)..Len(blocks) :
                        blocks[j].startOffset = offset}
    IN  IF matches = {} THEN link
        ELSE CHOOSE j \in matches : \A k \in matches : k <= j

\* needFallThroughBranch of lines 357-359.
NeedFallThroughBranch(flags) ==
    flags \cap {"kInstrCanBranch", "kInstrCanSwitch", "kInstrCanReturn",
                "kInstrInvoke"} = {}

\* A kind chosen by the opcode flags alone.
TakenCellByFlags(isInvoke, flags) ==
    IF "kInstrUnconditional" \in flags THEN "CHAINING_CELL_HOT"
    ELSE "CHAINING_CELL_NORMAL"

\* The kind of the chaining cell for an unresolved target, lines 363-370.
TakenCellType(isInvoke, flags) ==
    IF isInvoke THEN "CHAINING_CELL_INVOKE"
    ELSE IF "kInstrUnconditional" \in flags THEN "CHAINING_CELL_HOT"
    ELSE "CHAINING_CELL_NORMAL"

\* A test that makes a cell for forward targets only.
TakenCellForwardOnly(targetOffset, curOffset, taken) ==
    targetOffset > curOffset /\ taken = 0

\* Whether a chaining cell is made for the taken edge, line 362.
TakenCellNeeded(targetOffset, curOffset, taken) ==
    targetOffset # curOffset /\ taken = 0

\* A test that goes by the can-continue flag of the opcode.
FallThroughCellByFlag(lastInsn, fallThrough) ==
    "kInstrCanContinue" \in InstrFlags(lastInsn.dalvikInsn.opCode)
        /\ fallThrough = 0

\* Whether a chaining cell is made for the fallthrough edge, line 383.
FallThroughCellNeeded(lastInsn, fallThrough) ==
    ~isUnconditionalBranch(lastInsn) /\ fallThrough = 0

\* A fallthrough cell that is hot whatever the terminator.
FallThroughCellHot(isInvoke, needFallThroughBranch) == "CHAINING_CELL_HOT"

\* The kind of the chaining cell for an unresolved fallthrough, lines 389-393.
FallThroughCellType(isInvoke, needFallThroughBranch) ==
    IF isInvoke \/ needFallThroughBranch THEN "CHAINING_CELL_HOT"
    ELSE "CHAINING_CELL_NORMAL"

\* One iteration of the linking loop, lines 320-399, for the block curBB.
ResolveOne(s) ==
    LET cur == s.blocks[s.curBB]
        lastInsn == cur.insns[Len(cur.insns)]
        curOffset == lastInsn.offset
        fallThroughOffset == curOffset + lastInsn.width
        fb == findBlockBoundary(SampleMethods[s.desc.method], lastInsn,
                                curOffset, curOffset, FALSE, 0)
        targetOffset == fb.target
        taken1 == SearchLink(s.blocks, s.curBB, targetOffset, cur.taken)
        fall1 == SearchLink(s.blocks, s.curBB, fallThroughOffset,
                            cur.fallThrough)
        flags == InstrFlags(lastInsn.dalvikInsn.opCode)
        need == NeedFallThroughBranch(flags)
        mkTaken == TakenCellNeeded(targetOffset, curOffset, taken1)
        takenCell ==
            [dvmCompilerNewBB(TakenCellType(fb.isInvoke, flags)) EXCEPT
                !.id = s.numBlocks,
                !.startOffset = IF fb.isInvoke THEN 0 ELSE targetOffset,
                !.containingMethod = IF fb.isInvoke THEN fb.callee ELSE 0]
        blocks2 == IF mkTaken THEN Append(s.blocks, takenCell) ELSE s.blocks
        taken2 == IF mkTaken THEN Len(blocks2) ELSE taken1
        numBlocks2 == IF mkTaken THEN s.numBlocks + 1 ELSE s.numBlocks
        mkFall == FallThroughCellNeeded(lastInsn, fall1)
        fallCell ==
            [dvmCompilerNewBB(FallThroughCellType(fb.isInvoke, need)) EXCEPT
                !.id = numBlocks2, !.startOffset = fallThroughOffset]
        blocks3 == IF mkFall THEN Append(blocks2, fallCell) ELSE blocks2
        fall2 == IF mkFall THEN Len(blocks3) ELSE fall1
        numBlocks3 == IF mkFall THEN numBlocks2 + 1 ELSE numBlocks2
    IN  [s EXCEPT
            !.curOffset = curOffset,
            !.blocks = [blocks3 EXCEPT
                           ![s.curBB].taken = taken2,
                           ![s.curBB].fallThrough = fall2,
                           ![s.curBB].needFallThroughBranch = need],
            !.numBlocks = numBlocks3,
            !.curBB = @ + 1]

\* The linking loop goes on: curBB is a block and holds an instruction
\* (lines 320-325).
ResolveGoesOn(s) ==
    s.curBB <= Len(s.blocks) /\ s.blocks[s.curBB].insns # << >>

\* The trailer blocks in the other order.
TrailerTypesSwapped == << "EXCEPTION_HANDLING", "PC_RECONSTRUCTION" >>

\* The two trailer blocks of lines 401-409, in the order they are appended.
TrailerTypes == << "PC_RECONSTRUCTION", "EXCEPTION_HANDLING" >>

\* Lines 401-409.
AppendTrailer(s) ==
    LET pcr == [dvmCompilerNewBB(TrailerTypes[1]) EXCEPT !.id = s.numBlocks]
        exh == [dvmCompilerNewBB(TrailerTypes[2]) EXCEPT
                   !.id = s.numBlocks + 1]
    IN  [s EXCEPT !.blocks = Append(Append(@, pcr), exh),
                  !.numBlocks = @ + 2,
                  !.pc = IF s.cUnit.printMe THEN "log" ELSE "list"]

\* Lines 423-443: cUnit.blockList[i] is the i-th block of the list, for
\* the numBlocks blocks counted.
BuildBlockList(s) ==
    [s EXCEPT !.cUnit.numBlocks = s.numBlocks,
              !.cUnit.blockList = [i \in 1..s.numBlocks |-> i],
              !.curBB = 0,
              !.pc = "lower"]

\* Lines 445-460: lowering and assembly, which are not part of this file,
\* leave cUnit.halveInstCount set when the code did not fit.
LowerTrace(s, halve) ==
    [s EXCEPT !.cUnit.halveInstCount = halve, !.pc = "reset"]

\* A reset that is skipped when the attempt is to be retried.
ArenaResetUnlessRetry(s) ==
    IF s.cUnit.halveInstCount THEN [s EXCEPT !.pc = "return"]
    ELSE [s EXCEPT !.blocks = << >>, !.cUnit.blockList = << >>,
                   !.resets = @ + 1, !.pc = "return"]

\* Line 463: dvmCompilerArenaReset() gives back every block and node of the
\* attempt; cUnit itself is on the stack and stays.
ArenaReset(s) ==
    [s EXCEPT !.blocks = << >>, !.cUnit.blockList = << >>,
              !.resets = @ + 1, !.pc = "return"]

\* The budget of the retry, line 474.
RetryBudget(cUnit) == cUnit.numInsts \div 2

\* Line 474: the call of dvmCompileTrace(desc, cUnit.numInsts / 2).
RetryTrace(s) ==
    [s EXCEPT !.numMaxInsts = RetryBudget(s.cUnit), !.attempts = @ + 1,
              !.pc = "start"]

---------------------------------------------------------------------------
(* The inputs: trace descriptors over the sample methods, budgets and the  *)
(* settings of the method filter.                                          *)

\* Whether the unit at pos starts inline data rather than an instruction.
IsPseudo(insns, pos) ==
    Unit(insns, pos, 0) % 256 = OP_NOP /\ Unit(insns, pos, 0) # 0

\* The offsets of the instructions of a method, from pos on.
RECURSIVE InsnStarts(_, _)
InsnStarts(insns, pos) ==
    IF pos >= Len(insns) \/ IsPseudo(insns, pos) THEN {}
    ELSE {pos} \cup InsnStarts(insns, pos + InstrWidth(Unit(insns, pos, 0) % 256))

\* The runs of a method: a start at an instruction and a count of the
\* instructions that follow it in the code.
RunsOf(insns) ==
    LET starts == InsnStarts(insns, 0)
    IN  UNION {{[startOffset |-> o, numInsts |-> n] :
                   n \in 1..Cardinality({p \in starts : p >= o})} :
               o \in starts}

\* The trace descriptors of method k with n runs; only the last run has
\* runEnd set.
TracesOf(k, n) ==
    {[method |-> k,
      trace |-> [i \in 1..n |->
                    [startOffset |-> f[i].startOffset,
                     numInsts |-> f[i].numInsts,
                     runEnd |-> (i = n)]]] :
        f \in [1..n -> RunsOf(SampleMethods[k].insns)]}

Descriptors(methods) ==
    UNION {TracesOf(k, n) : k \in methods, n \in 1..MaxRuns}

\* The locals of a call of dvmCompileTrace(desc, numMaxInsts) at its entry.
TraceCall(desc, numMaxInsts) ==
    [pc |-> "start", desc |-> desc, numMaxInsts |-> numMaxInsts,
     cUnit |-> ZeroCUnit, blocks |-> << >>, currRun |-> 1, curOffset |-> 0,
     numInsts |-> 0, traceSize |-> 0, curBB |-> 0, numBlocks |-> 0,
     reg |-> 0, resets |-> 0, attempts |-> 0]

\* A thread that compiles nothing.
IdleThread ==
    [TraceCall([method |-> 1, trace |-> << >>], 0) EXCEPT !.pc = "idle"]

NoTable ==
    [hasTable |-> FALSE, methodTable |-> {}, includeSelectedMethod |-> FALSE,
     printMe |-> FALSE]

\* The keys a filter table may hold.
FilterKeys == {"LFoo;loop", "LFoo;", "loop", "pick"}

FilterSettings ==
    {NoTable, [NoTable EXCEPT !.printMe = TRUE]} \cup
    {[hasTable |-> TRUE, methodTable |-> tbl, includeSelectedMethod |-> inc,
      printMe |-> FALSE] : tbl \in SUBSET FilterKeys, inc \in BOOLEAN}

NoMethodCall == [pc |-> "none"]
NoParse == [pc |-> "none"]
NoClassify == [pc |-> "none"]

---------------------------------------------------------------------------
(* The steps of dvmCompileTrace run by thread t.                           *)

Others == <<gDvmJit, mb, pi, cls>>

Enter(t) ==
    /\ th[t].pc = "start"
    /\ th' = [th EXCEPT ![t] = EnterTrace(th[t], gDvmJit)]
    /\ UNCHANGED <<compilationId, Others>>

Decode(t) ==
    /\ th[t].pc = "decode"
    /\ th' = [th EXCEPT ![t] = DecodeOne(th[t])]
    /\ UNCHANGED <<compilationId, Others>>

Resolve(t) ==
    /\ th[t].pc = "resolve"
    /\ ResolveGoesOn(th[t])
    /\ th' = [th EXCEPT ![t] = ResolveOne(th[t])]
    /\ UNCHANGED <<compilationId, Others>>

Trailer(t) ==
    /\ th[t].pc = "resolve"
    /\ ~ResolveGoesOn(th[t])
    /\ th' = [th EXCEPT ![t] = AppendTrailer(th[t])]
    /\ UNCHANGED <<compilationId, Others>>

\* compilationId++ of line 413 is a load and a store of the static counter.
LogLoad(t) ==
    /\ th[t].pc = "log"
    /\ th' = [th EXCEPT ![t].reg = compilationId, ![t].pc = "logstore"]
    /\ UNCHANGED <<compilationId, Others>>

LogStore(t) ==
    /\ th[t].pc = "logstore"
    /\ compilationId' = th[t].reg + 1
    /\ th' = [th EXCEPT ![t].pc = "list"]
    /\ UNCHANGED Others

BlockList(t) ==
    /\ th[t].pc = "list"
    /\ th' = [th EXCEPT ![t] = BuildBlockList(th[t])]
    /\ UNCHANGED <<compilationId, Others>>

Lower(t) ==
    /\ th[t].pc = "lower"
    /\ \E halve \in BOOLEAN : th' = [th EXCEPT ![t] = LowerTrace(th[t], halve)]
    /\ UNCHANGED <<compilationId, Others>>

Reset(t) ==
    /\ th[t].pc = "reset"
    /\ th' = [th EXCEPT ![t] = ArenaReset(th[t])]
    /\ UNCHANGED <<compilationId, Others>>

Return(t) ==
    /\ th[t].pc = "return"
    /\ ~th[t].cUnit.halveInstCount
    /\ th' = [th EXCEPT ![t].pc = "done"]
    /\ UNCHANGED <<compilationId, Others>>

Retry(t) ==
    /\ th[t].pc = "return"
    /\ th[t].cUnit.halveInstCount
    /\ th[t].attempts < MaxAttempts
    /\ th' = [th EXCEPT ![t] = RetryTrace(th[t])]
    /\ UNCHANGED <<compilationId, Others>>

TraceNext ==
    \E t \in Threads :
        \/ Enter(t)
        \/ Decode(t)
        \/ Resolve(t)
        \/ Trailer(t)
        \/ LogLoad(t)
        \/ LogStore(t)
        \/ BlockList(t)
        \/ Lower(t)
        \/ Reset(t)
        \/ Return(t)
        \/ Retry(t)

\* One top-level compile of any trace of the sample methods.
Init ==
    /\ \E d \in Descriptors(1..Len(SampleMethods)), b \in 1..MaxBudget :
           th = [t \in Threads |-> IF t = 1 THEN TraceCall(d, b) ELSE IdleThread]
    /\ compilationId = 0
    /\ gDvmJit \in {NoTable, [NoTable EXCEPT !.printMe = TRUE]}
    /\ mb = NoMethodCall
    /\ pi = NoParse
    /\ cls = NoClassify

Spec == Init /\ [][TraceNext]_vars

\* One top-level compile of a one-run trace under every filter setting.
InitFilter ==
    /\ \E d \in UNION {TracesOf(k, 1) : k \in 1..Len(SampleMethods)} :
           th = [t \in Threads |->
                    IF t = 1 THEN TraceCall(d, MaxBudget) ELSE IdleThread]
    /\ compilationId = 0
    /\ gDvmJit \in FilterSettings
    /\ mb = NoMethodCall
    /\ pi = NoParse
    /\ cls = NoClassify

SpecFilter == InitFilter /\ [][TraceNext]_vars

\* The one-run traces of method k that hold a single instruction.
SingleInsnTraces(k) == {d \in TracesOf(k, 1) : d.trace[1].numInsts = 1}

\* Two top-level compiles at once, one per compiler thread, of
\* one-instruction traces of the first sample method with diagnostics on.
InitConc ==
    /\ \E d1 \in SingleInsnTraces(1), d2 \in SingleInsnTraces(1) :
           th = [t \in Threads |->
                    IF t = 1 THEN TraceCall(d1, MaxBudget)
                    ELSE TraceCall(d2, MaxBudget)]
    /\ compilationId = 0
    /\ gDvmJit = [NoTable EXCEPT !.printMe = TRUE]
    /\ mb = NoMethodCall
    /\ pi = NoParse
    /\ cls = NoClassify

SpecConc == InitConc /\ [][TraceNext]_vars

\* One top-level compile of a trace that may go round the loop of the first
\* sample method more than once.
InitLoop ==
    /\ \E d \in UNION {TracesOf(1, n) : n \in 1..MaxLoopRuns},
           b \in 1..MaxBudget :
           th = [t \in Threads |-> IF t = 1 THEN TraceCall(d, b) ELSE IdleThread]
    /\ compilationId = 0
    /\ gDvmJit \in {NoTable, [NoTable EXCEPT !.printMe = TRUE]}
    /\ mb = NoMethodCall
    /\ pi = NoParse
    /\ cls = NoClassify

SpecLoop == InitLoop /\ [][TraceNext]_vars

---------------------------------------------------------------------------
(* parseInsn on its own: the units at codePtr are the input.               *)

ParseInputs ==
    {<<u0, u1, u2, u3>> :
        u0 \in {OP_NOP, kPackedSwitchSignature, kSparseSwitchSignature,
                kArrayDataSignature, 1024, OP_MOVE, OP_GOTO_16,
                OP_INVOKE_STATIC},
        u1 \in 0..MaxEntries, u2 \in 0..MaxEntries, u3 \in 0..1}

InitParse ==
    /\ th = [t \in Threads |-> IdleThread]
    /\ compilationId = 0
    /\ gDvmJit = NoTable
    /\ mb = NoMethodCall
    /\ pi \in {[pc |-> "call", code |-> c, width |-> 0] : c \in ParseInputs}
    /\ cls = NoClassify

Parse ==
    /\ pi.pc = "call"
    /\ pi' = [pi EXCEPT !.pc = "ret", !.width = parseInsn(pi.code, 0)]
    /\ UNCHANGED <<th, compilationId, gDvmJit, mb, cls>>

SpecParse == InitParse /\ [][Parse]_vars

---------------------------------------------------------------------------
(* findBlockBoundary on its own: the instruction, its offset and the       *)
(* values the caller left in *target, *isInvoke and *callee are the input. *)

\* One instruction of every opcode the classifier names, and three it does
\* not name.
ClassifyCode ==
    {Asm10x(op) : op \in ReturnOps \cup {OP_THROW, OP_MOVE, OP_NOP}}
        \cup {Asm35c(op, ref) : op \in InvokeOps, ref \in 1..Len(MethodObjs)}
        \cup {Asm10t(OP_GOTO, d) : d \in {-1, MaxOffset}}
        \cup {Asm20t(OP_GOTO_16, d) : d \in {-1, MaxOffset}}
        \cup {Asm30t(OP_GOTO_32, d) : d \in {-1, 0, MaxOffset}}
        \cup {Asm22t(op, 0, 1, d) : op \in IfOps, d \in {-1, MaxOffset}}
        \cup {Asm21t(op, 0, d) : op \in IfzOps, d \in {-1, MaxOffset}}
        \cup {Asm31t(OP_PACKED_SWITCH, 0, 4)}

\* The calls: the trace builder and the first pass of the method builder
\* pass isInvoke = false, the method builder's linking loop passes isInvoke
\* and callee as they happen to be; all pass target = curOffset.
ClassifyInputs ==
    {[pc |-> "call", caller |-> k,
      insn |-> [offset |-> o, width |-> parseInsn(c, 0),
                dalvikInsn |-> dexDecodeInstruction(c, 0)],
      curOffset |-> o, inTarget |-> o, inIsInvoke |-> i, inCallee |-> m,
      ret |-> FALSE, target |-> o, isInvoke |-> i, callee |-> m] :
        k \in {2, 4}, c \in ClassifyCode, o \in 1..(MaxOffset + 1),
        i \in BOOLEAN, m \in 0..1}

InitClassify ==
    /\ th = [t \in Threads |-> IdleThread]
    /\ compilationId = 0
    /\ gDvmJit = NoTable
    /\ mb = NoMethodCall
    /\ pi = NoParse
    /\ cls \in ClassifyInputs

Classify ==
    /\ cls.pc = "call"
    /\ LET fb == findBlockBoundary(SampleMethods[cls.caller], cls.insn,
                                   cls.curOffset, cls.inTarget,
                                   cls.inIsInvoke, cls.inCallee)
       IN  cls' = [cls EXCEPT !.pc = "ret", !.ret = fb.ret,
                              !.target = fb.target,
                              !.isInvoke = fb.isInvoke,
                              !.callee = fb.callee]
    /\ UNCHANGED <<th, compilationId, gDvmJit, mb, pi>>

SpecClassify == InitClassify /\ [][Classify]_vars

---------------------------------------------------------------------------
(* dvmCompileMethod: the locals of one call, as a record, and one operator *)
(* per stage of the function.  blockList holds the blocks created so far,  *)
(* in the order of their creation: these are the first cUnit.numBlocks     *)
(* entries of the zeroed array of numBlocks pointers, the others are NULL. *)

\* a < b for 32-bit unsigned values kept as signed integers.
ULess(a, b) == IF (a < 0) = (b < 0) THEN a < b ELSE b < 0

\* dvmSetBit on the fixed-size vector made by dvmAllocBitVector(nBits, false):
\* the storage is whole 32-bit words, and a bit past it is not set.
dvmSetBit(bits, nBits, num) ==
    IF num >= 0 /\ num < ((nBits + 31) \div 32) * 32 THEN bits \cup {num}
    ELSE bits

dvmIsBitSet(bits, num) == num \in bits

dvmCountSetBits(bits) == Cardinality(bits)

\* Lines 487-498.
EnterMethod(method) ==
    [pc |-> "scan", method |-> method, curOffset |-> 0, blockID |-> 1,
     firstBlock |-> dvmCompilerNewBB("DALVIK_BYTECODE"),
     bbStartAddr |-> dvmSetBit({}, Len(method.insns) + 1, 0),
     numBlocks |-> 0, cUnitNumBlocks |-> 0, blockList |-> << >>, i |-> 0,
     resets |-> 0]

\* The first pass goes on: codePtr < codeEnd, line 504.
ScanGoesOn(s) == s.curOffset < Len(s.method.insns)

\* The indices one iteration of the first pass hands to dvmSetBit, in the
\* order of the calls (lines 523-529): the offset after a terminator, then
\* its target when that is not the instruction's own offset.
ScanMarks(method, insn) ==
    LET fb == findBlockBoundary(method, insn, insn.offset, insn.offset,
                                FALSE, 0)
    IN  IF ~fb.ret THEN << >>
        ELSE IF fb.target # insn.offset
            THEN << insn.offset + insn.width, fb.target >>
        ELSE << insn.offset + insn.width >>

\* dvmSetBit for each index of nums in turn.
RECURSIVE SetBits(_, _, _)
SetBits(bits, nBits, nums) ==
    IF nums = << >> THEN bits
    ELSE SetBits(dvmSetBit(bits, nBits, Head(nums)), nBits, Tail(nums))

\* One iteration of the first pass, lines 504-535.
ScanOne(s) ==
    LET code == s.method.insns
        nBits == Len(code) + 1
        width == parseInsn(code, s.curOffset)
        insn == [offset |-> s.curOffset, width |-> width,
                 dalvikInsn |-> dexDecodeInstruction(code, s.curOffset)]
    IN  [s EXCEPT !.firstBlock.insns = Append(@, insn),
                  !.bbStartAddr = SetBits(@, nBits, ScanMarks(s.method, insn)),
                  !.curOffset = @ + width]

\* The expected number of blocks, lines 542-545.
ExpectedBlocks(bits, insnsSize) ==
    IF dvmIsBitSet(bits, insnsSize) THEN dvmCountSetBits(bits) - 1
    ELSE dvmCountSetBits(bits)

\* Lines 542-560.
\* Line 559 stores the pointer firstBlock in blockList[0]: the two name one
\* block, so what is written to blockList[0] is seen through firstBlock.
SameFirstBlock(s) == [s EXCEPT !.firstBlock = s.blockList[1]]

CountBlocks(s) ==
    [s EXCEPT !.numBlocks = ExpectedBlocks(s.bbStartAddr, Len(s.method.insns)),
              !.blockList = << s.firstBlock >>,
              !.cUnitNumBlocks = 1,
              !.i = 0,
              !.pc = "split"]

\* A splitting loop that stops one block early.
SplitStopsEarly(s) == s.i < s.numBlocks - 1

\* The splitting loop goes on: i < numBlocks, line 563.
SplitGoesOn(s) == s.i < s.numBlocks

\* A comparison that also takes a block that starts before the offset.
BlockStartsAtOrBefore(block, offset) == block.insns[1].offset <= offset

\* blockList[j]->firstMIRInsn->offset == target, line 631.
BlockStartsAt(block, offset) == block.insns[1].offset = offset

\* blockList[j]->firstMIRInsn->offset == insn->offset, line 573.
BlockCreatedAt(block, offset) == block.insns[1].offset = offset

\* The instructions of block cur, after its first, that are marked as block
\* starts and begin no block yet (lines 568-578), by position in the block.
SplitPoints(s, cur) ==
    {k \in 2..Len(cur.insns) :
        /\ dvmIsBitSet(s.bbStartAddr, cur.insns[k].offset)
        /\ \A j \in 1..s.cUnitNumBlocks :
               ~BlockCreatedAt(s.blockList[j], cur.insns[k].offset)}

\* A split that hands over the marked instruction alone.
MovedOne(insns, k) == SubSeq(insns, k, k)

\* The instructions a split at position k hands to the new block, lines
\* 583-584: from firstMIRInsn = insn to the old block's lastMIRInsn.
MovedInsns(insns, k) == SubSeq(insns, k, Len(insns))

\* One iteration of the splitting loop, lines 563-601.  Reading blockList[i]
\* for an i that holds no block yet is a read through a NULL pointer.
SplitOne(s) ==
    IF s.i + 1 > s.cUnitNumBlocks THEN [s EXCEPT !.pc = "segv"]
    ELSE
        LET cur == s.blockList[s.i + 1]
            points == SplitPoints(s, cur)
            curOffset == cur.insns[Len(cur.insns)].offset
        IN  IF points = {}
                THEN [s EXCEPT !.curOffset = curOffset, !.i = @ + 1]
            ELSE
                LET k == CHOOSE x \in points : \A y \in points : x <= y
                    newBB == [dvmCompilerNewBB("DALVIK_BYTECODE") EXCEPT
                                 !.id = s.blockID,
                                 !.insns = MovedInsns(cur.insns, k)]
                    kept == SubSeq(cur.insns, 1, k - 1)
                    old == [cur EXCEPT
                               !.insns = kept,
                               !.fallThrough =
                                   IF ~isUnconditionalBranch(kept[Len(kept)])
                                       THEN s.cUnitNumBlocks + 1
                                       ELSE @]
                IN  SameFirstBlock(
                        [s EXCEPT !.curOffset = curOffset,
                                  !.blockID = @ + 1,
                                  !.blockList =
                                      Append([@ EXCEPT ![s.i + 1] = old],
                                             newBB),
                                  !.cUnitNumBlocks = @ + 1,
                                  !.i = @ + 1])

\* Lines 603-608: dvmAbort on a count mismatch; otherwise the bit vector
\* is handed to dvmFreeBitVector (line 608), after which no bit of it is
\* held, and the linking loop starts at block 0.
CheckCount(s) ==
    IF s.numBlocks # s.cUnitNumBlocks THEN [s EXCEPT !.pc = "abort"]
    ELSE [s EXCEPT !.bbStartAddr = {}, !.pc = "link", !.i = 0]

\* Where the search for the target block starts, lines 622-629.
LinkSearchStart(target, offset, i) ==
    IF ULess(offset, target) THEN i + 1 ELSE 0

\* The search of lines 630-635: the index j at which the loop stops, which
\* is numBlocks when no block starts at target.
LinkSearch(blockList, numBlocks, from, target) ==
    LET found == {j \in from..(numBlocks - 1) :
                      BlockStartsAt(blockList[j + 1], target)}
    IN  IF found = {} THEN numBlocks
        ELSE CHOOSE j \in found : \A k \in found : j <= k

\* One iteration of the linking loop, lines 611-643.
LinkOne(s) ==
    LET curBB == s.blockList[s.i + 1]
        insn == curBB.insns[Len(curBB.insns)]
        fb == findBlockBoundary(s.method, insn, insn.offset, insn.offset,
                                FALSE, 0)
        target == fb.target
        j == LinkSearch(s.blockList, s.numBlocks,
                        LinkSearchStart(target, insn.offset, s.i), target)
    IN  IF target # insn.offset
            THEN IF j = s.numBlocks THEN [s EXCEPT !.pc = "abort"]
                 ELSE SameFirstBlock(
                          [s EXCEPT !.blockList[s.i + 1].taken = j + 1,
                                    !.i = @ + 1])
            ELSE [s EXCEPT !.i = @ + 1]

\* The linking loop goes on: i < numBlocks, line 611.
LinkGoesOn(s) == s.i < s.numBlocks

\* The method bodies: up to MaxMethodInsns of these instructions in a row.
BodyInsns ==
    {Asm10x(OP_MOVE), Asm10x(OP_RETURN_VOID), Asm10x(OP_THROW),
     Asm10t(OP_GOTO, -2), Asm10t(OP_GOTO, 2), Asm20t(OP_GOTO_16, -1),
     Asm21t(OP_IF_EQZ, 0, 2), Asm21t(OP_IF_NEZ, 0, 3),
     Asm22t(OP_IF_LT, 0, 1, -1), Asm35c(OP_INVOKE_VIRTUAL, 1),
     Asm35c(OP_INVOKE_STATIC, 1), Asm35c(OP_INVOKE_DIRECT, 2)}

RECURSIVE Flatten(_)
Flatten(seqs) ==
    IF seqs = << >> THEN << >> ELSE Head(seqs) \o Flatten(Tail(seqs))

\* No jump or branch of the body goes to before its first instruction.
RECURSIVE NoTargetBeforeStart(_, _)
NoTargetBeforeStart(insns, pos) ==
    IF pos >= Len(insns) THEN TRUE
    ELSE LET d == dexDecodeInstruction(insns, pos)
             disp == IF d.opCode \in GotoOps THEN d.vA
                     ELSE IF d.opCode \in IfOps THEN d.vC
                     ELSE IF d.opCode \in IfzOps THEN d.vB
                     ELSE 0
         IN  /\ pos + disp >= 0
             /\ NoTargetBeforeStart(insns, pos + InstrWidth(d.opCode))

\* Bodies that hold inline data after their last instruction: a packed
\* switch, a sparse switch and a fill-array-data, each followed by a
\* return-void and by its table at offset 4.
PayloadBodies ==
    {Asm31t(OP_PACKED_SWITCH, 0, 4) \o Asm10x(OP_RETURN_VOID)
         \o << kPackedSwitchSignature, 1, 0, 0, 3, 0 >>,
     Asm31t(OP_SPARSE_SWITCH, 0, 4) \o Asm10x(OP_RETURN_VOID)
         \o << kSparseSwitchSignature, 1, 0, 0, 3, 0 >>,
     Asm31t(OP_FILL_ARRAY_DATA, 0, 4) \o Asm10x(OP_RETURN_VOID)
         \o << kArrayDataSignature, 1, 2, 0, 513 >>}

MethodBodies ==
    {c \in {Flatten(f) : f \in UNION {[1..n -> BodyInsns] : n \in 1..MaxMethodInsns}} :
        NoTargetBeforeStart(c, 0)}
        \cup PayloadBodies

---------------------------------------------------------------------------
(* The steps of dvmCompileMethod.                                          *)

Rest == <<th, compilationId, gDvmJit, pi, cls>>

MScan ==
    /\ mb.pc = "scan"
    /\ ScanGoesOn(mb)
    /\ Len(mb.firstBlock.insns) < MaxNodes
    /\ mb' = ScanOne(mb)
    /\ UNCHANGED Rest

MCount ==
    /\ mb.pc = "scan"
    /\ ~ScanGoesOn(mb)
    /\ mb' = CountBlocks(mb)
    /\ UNCHANGED Rest

MSplit ==
    /\ mb.pc = "split"
    /\ SplitGoesOn(mb)
    /\ mb' = SplitOne(mb)
    /\ UNCHANGED Rest

MCheck ==
    /\ mb.pc = "split"
    /\ ~SplitGoesOn(mb)
    /\ mb' = CheckCount(mb)
    /\ UNCHANGED Rest

MLink ==
    /\ mb.pc = "link"
    /\ LinkGoesOn(mb)
    /\ mb' = LinkOne(mb)
    /\ UNCHANGED Rest

\* What is left of a block once the arena is reset: nothing.
FreedBlock == [blockType |-> "FREED", insns |-> << >>]

\* Lines 645-653: the graph goes to dvmCompilerMIR2LIR, dvmCompilerAssembleLIR
\* and dvmCompilerDumpCompilationUnit, which are not part of this file, and
\* dvmCompilerArenaReset() then gives back every block and node of the call:
\* blockList and firstBlock dangle, the counters on the stack stay.
FinishMethod(s) ==
    [s EXCEPT !.blockList = << >>, !.firstBlock = FreedBlock,
              !.resets = @ + 1, !.pc = "done"]

MFinish ==
    /\ mb.pc = "link"
    /\ ~LinkGoesOn(mb)
    /\ mb' = FinishMethod(mb)
    /\ UNCHANGED Rest

MethodNext == MScan \/ MCount \/ MSplit \/ MCheck \/ MLink \/ MFinish

InitMethod ==
    /\ th = [t \in Threads |-> IdleThread]
    /\ compilationId = 0
    /\ gDvmJit = NoTable
    /\ mb \in {EnterMethod([descriptor |-> "LFoo;", name |-> "body",
                            insns |-> c, pResMethods |-> <<1, 2>>,
                            superVtable |-> <<1, 2>>]) : c \in MethodBodies}
    /\ pi = NoParse
    /\ cls = NoClassify

SpecMethod == InitMethod /\ [][MethodNext]_vars

---------------------------------------------------------------------------
(* The trace graph that is handed to lowering.                             *)

\* The graph of thread t is complete: the linking loop and the trailer are
\* done and the arena has not been reset.
GraphBuilt(t) == th[t].pc \in {"log", "logstore", "list", "lower"}

BytecodeBlocks(t) ==
    {b \in 1..Len(th[t].blocks) : th[t].blocks[b].blockType = "DALVIK_BYTECODE"}

LastInsn(t, b) == th[t].blocks[b].insns[Len(th[t].blocks[b].insns)]

ChainingCellTypes ==
    {"CHAINING_CELL_NORMAL", "CHAINING_CELL_HOT", "CHAINING_CELL_INVOKE"}

\* The last instruction names a target at compile time that is not its own
\* offset: a jump or conditional branch with a non-zero displacement, or a
\* statically bound invoke of a bytecode callee.
HasStaticTarget(t, insn) ==
    LET d == insn.dalvikInsn
        caller == SampleMethods[th[t].desc.method]
    IN  \/ d.opCode \in GotoOps /\ d.vA # 0
        \/ d.opCode \in IfOps /\ d.vC # 0
        \/ d.opCode \in IfzOps /\ d.vB # 0
        \/ /\ d.opCode \in SuperInvokeOps \cup StaticInvokeOps
                   \cup SuperQuickInvokeOps \cup DirectInvokeOps
           /\ ~MethodObjs[ResolveCallee(caller, insn)].native
           /\ MethodObjs[ResolveCallee(caller, insn)].insns # insn.offset

\* The taken edge of block b is there and leads to a later block of the trace
\* or to a chaining cell.
TakenLinked(t, b) ==
    LET taken == th[t].blocks[b].taken
    IN  /\ taken \in 1..Len(th[t].blocks)
        /\ taken # b
        /\ th[t].blocks[taken].blockType
               \in {"DALVIK_BYTECODE"} \cup ChainingCellTypes

\* C1 as stated: in a built trace graph every bytecode block whose last
\* instruction can branch, can switch or is an invoke, by its opcode flags,
\* has a taken edge.
C1_TakenForBranchSwitchInvoke ==
    \A t \in Threads : GraphBuilt(t) =>
        \A b \in BytecodeBlocks(t) :
            InstrFlags(LastInsn(t, b).dalvikInsn.opCode)
                    \cap {"kInstrCanBranch", "kInstrCanSwitch", "kInstrInvoke"} # {}
                => TakenLinked(t, b)

\* C1 amended: in a built trace graph every bytecode block whose last
\* instruction names a target at compile time other than its own offset (a
\* goto or if with a non-zero displacement, a statically bound invoke of a
\* bytecode callee) has a taken edge, to a later block or a chaining cell.
C1_TakenForStaticTarget ==
    \A t \in Threads : GraphBuilt(t) =>
        \A b \in BytecodeBlocks(t) :
            HasStaticTarget(t, LastInsn(t, b)) => TakenLinked(t, b)

\* A built graph in which one block's branch is linked to a block of the
\* trace and another's to a chaining cell made for it.
C1_Witness ==
    /\ th[1].pc = "lower"
    /\ \E b \in BytecodeBlocks(1) :
           /\ HasStaticTarget(1, LastInsn(1, b))
           /\ th[1].blocks[th[1].blocks[b].taken].blockType = "DALVIK_BYTECODE"
    /\ \E b \in BytecodeBlocks(1) :
           /\ HasStaticTarget(1, LastInsn(1, b))
           /\ th[1].blocks[th[1].blocks[b].taken].blockType \in ChainingCellTypes

\* C2: in a built trace graph every bytecode block whose last instruction is
\* neither of the return family nor a goto has a fallThrough edge.
C2_FallThroughUnlessUnconditional ==
    \A t \in Threads : GraphBuilt(t) =>
        \A b \in BytecodeBlocks(t) :
            LastInsn(t, b).dalvikInsn.opCode \notin ReturnOps \cup GotoOps
                => /\ th[t].blocks[b].fallThrough \in 1..Len(th[t].blocks)
                   /\ th[t].blocks[b].fallThrough # b

\* A built graph with a throw and a conditional branch whose fallthrough
\* edges lead to chaining cells, and a goto without a fallthrough edge.
C2_Witness ==
    /\ th[1].pc = "lower"
    /\ \E b \in BytecodeBlocks(1) :
           /\ LastInsn(1, b).dalvikInsn.opCode \in IfOps \cup IfzOps \cup {OP_THROW}
           /\ th[1].blocks[th[1].blocks[b].fallThrough].blockType
                  \in ChainingCellTypes
    /\ \E b \in BytecodeBlocks(1) :
           /\ LastInsn(1, b).dalvikInsn.opCode \in GotoOps
           /\ th[1].blocks[b].fallThrough = 0

\* C3: the block array handed to lowering ends with one PC-reconstruction
\* block followed by one exception-handling block, no other block is of
\* either kind, and the two have no taken and no fallThrough edge.
C3_Trailer ==
    \A t \in Threads : th[t].pc = "lower" =>
        LET list == th[t].cUnit.blockList
            n == Len(list)
            blk(i) == th[t].blocks[list[i]]
        IN  /\ n = th[t].cUnit.numBlocks
            /\ n = Len(th[t].blocks)
            /\ n >= 3
            /\ blk(n - 1).blockType = "PC_RECONSTRUCTION"
            /\ blk(n).blockType = "EXCEPTION_HANDLING"
            /\ \A i \in 1..(n - 2) :
                   blk(i).blockType
                       \notin {"PC_RECONSTRUCTION", "EXCEPTION_HANDLING"}
            /\ \A i \in {n - 1, n} :
                   blk(i).taken = 0 /\ blk(i).fallThrough = 0

\* A block array of two bytecode blocks, chaining cells and the trailer.
C3_Witness ==
    /\ th[1].pc = "lower"
    /\ Cardinality(BytecodeBlocks(1)) = 2
    /\ Len(th[1].cUnit.blockList) >= 5
    /\ th[1].blocks[Len(th[1].blocks)].blockType = "EXCEPTION_HANDLING"

C5_PseudoInsnWidth ==
    pi.pc = "ret" =>
        LET u(k) == pi.code[k + 1]
            size == u(2) + u(3) * 65536
        IN  /\ u(0) = kPackedSwitchSignature => pi.width = 4 + u(1) * 2
            /\ u(0) = kSparseSwitchSignature => pi.width = 2 + u(1) * 4
            /\ u(0) = kArrayDataSignature
                   => pi.width = 4 + (size * u(1) + 1) \div 2

\* The found of the filter: the class descriptor followed by the method
\* name, the class descriptor or the method name is in the table.
FilterFound(t) ==
    LET m == SampleMethods[th[t].desc.method]
    IN  \/ (m.descriptor \o m.name) \in gDvmJit.methodTable
        \/ m.descriptor \in gDvmJit.methodTable
        \/ m.name \in gDvmJit.methodTable

\* C8: once the filter has run, allSingleStep is set if and only if a table
\* is configured and includeSelectedMethod differs from found.
C8_FilterFlag ==
    \A t \in Threads : th[t].pc \notin {"idle", "start"} =>
        (th[t].cUnit.allSingleStep
            <=> (gDvmJit.hasTable
                    /\ gDvmJit.includeSelectedMethod # FilterFound(t)))

\* An excluding table that holds only the method's name, and the flag set.
C8_Witness ==
    LET m == SampleMethods[th[1].desc.method]
    IN  /\ th[1].pc = "decode"
        /\ gDvmJit.hasTable
        /\ ~gDvmJit.includeSelectedMethod
        /\ gDvmJit.methodTable = {m.name}
        /\ th[1].cUnit.allSingleStep

\* C9 as stated: a retry is entered with the arena not yet reset, and the
\* arena is reset once for the outermost call.
C9_ResetOncePerCompile ==
    \A t \in Threads :
        /\ th[t].resets <= 1
        /\ (th[t].pc = "start" => th[t].resets = 0)

\* C9 amended: the arena is reset once per attempt, after the attempt's
\* lowering and before its retry is entered: a compile that has made k
\* retries has reset the arena k times when an attempt starts and k + 1
\* times when the attempt has returned.
C9_ResetPerAttempt ==
    \A t \in Threads :
        th[t].resets =
            th[t].attempts + (IF th[t].pc \in {"return", "done"} THEN 1 ELSE 0)

\* A compile that ends after two retries and three resets.
C9_Witness ==
    th[1].pc = "done" /\ th[1].attempts = 2 /\ th[1].resets = 3

\* C10: no step of one attempt changes a variable another attempt has read
\* and still relies on: while an attempt holds the compilation identifier
\* it loaded, the steps of the other attempt leave the identifier alone.
C10_AttemptsIsolated ==
    [][\A t \in Threads :
           (th[t].pc = "logstore" /\ th'[t] = th[t])
               => compilationId' = compilationId]_vars

\* The blocks of the method builder's list whose last instruction is a jump
\* or conditional branch with a non-zero displacement, with the displacement.
Displacement(insn) ==
    LET d == insn.dalvikInsn
    IN  IF d.opCode \in GotoOps THEN d.vA
        ELSE IF d.opCode \in IfOps THEN d.vC
        ELSE IF d.opCode \in IfzOps THEN d.vB
        ELSE 0

MLastInsn(j) == mb.blockList[j].insns[Len(mb.blockList[j].insns)]

\* C6: when the splitting pass has ended, the number of blocks in the list
\* is the number of set bits of the block-start bit-set, less one if the bit
\* at the code length is set.
C6_BlockCountAfterSplit ==
    (mb.pc = "split" /\ ~SplitGoesOn(mb)) =>
        /\ Len(mb.blockList) = mb.cUnitNumBlocks
        /\ mb.cUnitNumBlocks =
               Cardinality(mb.bbStartAddr)
                   - (IF Len(mb.method.insns) \in mb.bbStartAddr THEN 1 ELSE 0)

\* The splitting pass has ended with three blocks, with and without the
\* end-of-code bit set.
C6_Witness ==
    /\ mb.pc = "split" /\ ~SplitGoesOn(mb)
    /\ mb.cUnitNumBlocks = 3
    /\ Len(mb.method.insns) \in mb.bbStartAddr

\* The linking loop of the method builder has ended: the graph is the one
\* handed to lowering at line 645.
MethodGraphBuilt == mb.pc = "link" /\ ~LinkGoesOn(mb)

\* C7: after the taken edges are resolved, in the graph handed to lowering,
\* the taken edge of every block that ends in a jump or conditional branch
\* with a target other than the instruction's own offset is the block whose
\* first instruction is at the target offset, for backward and for forward
\* targets.
C7_TakenIsTargetBlock ==
    MethodGraphBuilt =>
        \A j \in 1..Len(mb.blockList) :
            Displacement(MLastInsn(j)) # 0 =>
                /\ mb.blockList[j].taken \in 1..Len(mb.blockList)
                /\ mb.blockList[mb.blockList[j].taken].insns[1].offset
                       = MLastInsn(j).offset + Displacement(MLastInsn(j))

\* A linked method graph with a backward branch to an earlier block and a
\* forward branch over a block.
C7_Witness ==
    /\ MethodGraphBuilt
    /\ \E j \in 1..Len(mb.blockList) :
           Displacement(MLastInsn(j)) < 0 /\ mb.blockList[j].taken < j
    /\ \E j \in 1..Len(mb.blockList) :
           Displacement(MLastInsn(j)) > 0 /\ mb.blockList[j].taken > j + 1

---------------------------------------------------------------------------
(* The method builder's handling of a block count that does not match.     *)

\* C11: whenever the number of blocks found by splitting differs from the
\* expected number, the method builder reaches the logged abort: the
\* splitting loop never reads an entry of the block list that holds no
\* block yet, and linking starts only with the two counts equal.
C11_MismatchReachesAbort ==
    /\ mb.pc # "segv"
    /\ mb.pc \in {"link", "done"} => mb.numBlocks = mb.cUnitNumBlocks

---------------------------------------------------------------------------
(* Scenarios of the trace builder.                                         *)

\* The trace of thread t is one run of one instruction of the return family.
SingleReturnTrace(t) ==
    LET d == th[t].desc
    IN  /\ Len(d.trace) = 1
        /\ d.trace[1].numInsts = 1
        /\ Unit(SampleMethods[d.method].insns, d.trace[1].startOffset, 0) % 256
               \in ReturnOps

\* C12: the graph built for a trace of one run of a single return-family
\* instruction is three blocks in order, the bytecode block holding only
\* that instruction, the PC-reconstruction block and the exception-handling
\* block; there is no chaining cell and the bytecode block has no taken and
\* no fallThrough edge.
C12_SingleReturnThreeBlocks ==
    \A t \in Threads : (GraphBuilt(t) /\ SingleReturnTrace(t)) =>
        LET b == th[t].blocks
        IN  /\ Len(b) = 3
            /\ b[1].blockType = "DALVIK_BYTECODE"
            /\ Len(b[1].insns) = 1
            /\ b[1].insns[1].offset = th[t].desc.trace[1].startOffset
            /\ b[1].insns[1].dalvikInsn.opCode \in ReturnOps
            /\ b[1].taken = 0
            /\ b[1].fallThrough = 0
            /\ b[2].blockType = "PC_RECONSTRUCTION"
            /\ b[3].blockType = "EXCEPTION_HANDLING"

\* The graph of a trace of a single return-void is handed to lowering.
C12_Witness ==
    /\ th[1].pc = "lower"
    /\ SingleReturnTrace(1)
    /\ th[1].blocks[1].insns[1].dalvikInsn.opCode = OP_RETURN_VOID
    /\ th[1].cUnit.numBlocks = 3

\* A step of thread t is one iteration of the linking loop, for block curBB.
ResolveStep(t) ==
    /\ th[t].pc = "resolve"
    /\ th'[t].pc = "resolve"
    /\ th'[t].curBB = th[t].curBB + 1

\* The last bytecode block of the trace of thread t.
LastBytecodeBlock(t) ==
    CHOOSE b \in BytecodeBlocks(t) : \A c \in BytecodeBlocks(t) : c <= b

\* No block in the list of thread t starts at offset.
NoBlockAt(t, offset) ==
    \A j \in 1..Len(th[t].blocks) : th[t].blocks[j].startOffset # offset

\* C13: when the linking loop handles the last bytecode block of a trace and
\* that block ends in a goto, goto/16 or goto/32 whose target offset is the
\* start of no block of the trace, it appends exactly one block: a hot
\* chaining cell that starts at the target offset and becomes the block's
\* taken edge; the block's fallThrough edge stays absent.
C13_JumpOutOfTrace ==
    [][\A t \in Threads :
           LET cur == th[t].curBB
               insn == LastInsn(t, cur)
               target == insn.offset + insn.dalvikInsn.vA
               n == Len(th[t].blocks)
               after == th'[t].blocks
           IN  (/\ ResolveStep(t)
                /\ cur = LastBytecodeBlock(t)
                /\ insn.dalvikInsn.opCode \in GotoOps
                /\ NoBlockAt(t, target))
                   => /\ Len(after) = n + 1
                      /\ after[n + 1].blockType = "CHAINING_CELL_HOT"
                      /\ after[n + 1].startOffset = target
                      /\ after[cur].taken = n + 1
                      /\ after[cur].fallThrough = 0]_vars

\* C14: when the linking loop handles the last bytecode block of a trace and
\* that block ends in a compare-to-zero conditional branch whose target
\* offset and following offset are each the start of no block of the trace,
\* it appends exactly two blocks, both normal chaining cells: one at the
\* target offset, which becomes the taken edge, and one at the following
\* offset, which becomes the fallThrough edge.
C14_BranchOutOfTrace ==
    [][\A t \in Threads :
           LET cur == th[t].curBB
               insn == LastInsn(t, cur)
               target == insn.offset + insn.dalvikInsn.vB
               following == insn.offset + insn.width
               n == Len(th[t].blocks)
               after == th'[t].blocks
           IN  (/\ ResolveStep(t)
                /\ cur = LastBytecodeBlock(t)
                /\ insn.dalvikInsn.opCode \in IfzOps
                /\ NoBlockAt(t, target)
                /\ NoBlockAt(t, following))
                   => /\ Len(after) = n + 2
                      /\ after[n + 1].blockType = "CHAINING_CELL_NORMAL"
                      /\ after[n + 1].startOffset = target
                      /\ after[cur].taken = n + 1
                      /\ after[n + 2].blockType = "CHAINING_CELL_NORMAL"
                      /\ after[n + 2].startOffset = following
                      /\ after[cur].fallThrough = n + 2]_vars

\* The linking loop has handled a last bytecode block that ends in if-eqz,
\* in a trace with two bytecode blocks, and has made two cells for the
\* branch at offsets where no block of the trace started.
C14_Witness ==
    LET b == th[1].curBB - 1
        blocks == th[1].blocks
        n == Len(blocks)
    IN  /\ th[1].pc = "resolve"
        /\ b = 2
        /\ b = LastBytecodeBlock(1)
        /\ LastInsn(1, b).dalvikInsn.opCode = OP_IF_EQZ
        /\ blocks[b].taken = n - 1
        /\ blocks[b].fallThrough = n
        /\ \A j \in 1..(n - 2) :
               blocks[j].startOffset \notin
                   {blocks[n - 1].startOffset, blocks[n].startOffset}

---------------------------------------------------------------------------
(* The boundary classifier.                                                *)

\* C15: findBlockBoundary, called with the invocation flag false on an
\* instruction of the return family or a throw, returns true (a
\* terminator), leaves the target as it was and leaves the invocation flag
\* false.
C15_ReturnThrowNotInvoke ==
    (/\ cls.pc = "ret"
     /\ cls.insn.dalvikInsn.opCode \in ReturnOps \cup {OP_THROW}
     /\ ~cls.inIsInvoke)
        => /\ cls.ret
           /\ cls.target = cls.inTarget
           /\ cls.isInvoke = FALSE

---------------------------------------------------------------------------
(* The synthesis of chaining cells by the trace builder.                   *)

\* The target an instruction names at compile time: the address of the
\* callee's code for a statically bound invoke, the offset plus the
\* displacement for a jump or a conditional branch.
StaticTarget(t, insn) ==
    IF insn.dalvikInsn.opCode \in InvokeOps
        THEN MethodObjs[ResolveCallee(SampleMethods[th[t].desc.method],
                                      insn)].insns
        ELSE insn.offset + Displacement(insn)

\* C16: when the linking loop handles a bytecode block whose terminator has
\* a target other than its own offset and no later block of the list starts
\* at that target, it appends one block for the target and links it as
\* taken (the only other block it may append is the fallthrough cell); the
\* new block is an invoke chaining cell if the terminator is an invoke, else
\* a hot chaining cell if the terminator is unconditional, else a normal
\* chaining cell; an invoke cell holds the resolved callee and start offset
\* 0, any other cell starts at the target offset.
C16_TakenCellSynthesis ==
    [][\A t \in Threads :
           LET cur == th[t].curBB
               insn == LastInsn(t, cur)
               op == insn.dalvikInsn.opCode
               target == StaticTarget(t, insn)
               n == Len(th[t].blocks)
               after == th'[t].blocks
           IN  (/\ ResolveStep(t)
                /\ HasStaticTarget(t, insn)
                /\ \A j \in (cur + 1)..n :
                       th[t].blocks[j].startOffset # target)
                   => /\ Len(after) \in {n + 1, n + 2}
                      /\ after[cur].taken = n + 1
                      /\ Len(after) = n + 2 => after[cur].fallThrough = n + 2
                      /\ after[n + 1].blockType =
                             (IF op \in InvokeOps THEN "CHAINING_CELL_INVOKE"
                              ELSE IF op \in GotoOps THEN "CHAINING_CELL_HOT"
                              ELSE "CHAINING_CELL_NORMAL")
                      /\ IF op \in InvokeOps
                             THEN /\ after[n + 1].startOffset = 0
                                  /\ after[n + 1].containingMethod =
                                         ResolveCallee(
                                             SampleMethods[th[t].desc.method],
                                             insn)
                             ELSE /\ after[n + 1].startOffset = target
                                  /\ after[n + 1].containingMethod = 0]_vars

\* The linking loop has just made an invoke chaining cell that holds the
\* bytecode callee of an invoke-static, and a cell for its fallthrough.
C16_Witness ==
    LET b == th[1].curBB - 1
        blocks == th[1].blocks
        n == Len(blocks)
    IN  /\ th[1].pc = "resolve"
        /\ b \in BytecodeBlocks(1)
        /\ LastInsn(1, b).dalvikInsn.opCode = OP_INVOKE_STATIC
        /\ blocks[b].taken = n - 1
        /\ blocks[b].fallThrough = n
        /\ blocks[n - 1].blockType = "CHAINING_CELL_INVOKE"
        /\ blocks[n - 1].containingMethod = 1
        /\ blocks[n - 1].startOffset = 0

---------------------------------------------------------------------------
(* The direction of the edges of a trace graph.                            *)

\* The edges of block b of thread t that are there.
EdgesOf(t, b) == {th[t].blocks[b].taken, th[t].blocks[b].fallThrough} \ {0}

\* The last instruction of block b names the start offset of a bytecode
\* block created before b.
IsBackEdge(t, b) ==
    /\ HasStaticTarget(t, LastInsn(t, b))
    /\ \E c \in BytecodeBlocks(t) :
           c < b /\ th[t].blocks[c].startOffset
                        = StaticTarget(t, LastInsn(t, b))

\* A bytecode block after b starts at the target of b's last instruction.
TargetRunsLater(t, b) ==
    \E c \in BytecodeBlocks(t) :
        c > b /\ th[t].blocks[c].startOffset = StaticTarget(t, LastInsn(t, b))

---------------------------------------------------------------------------
(* The instruction budget of an attempt.                                   *)

\* C18: in every attempt of the trace builder, retries included, the number
\* of instructions decoded into the graph never exceeds the budget of the
\* attempt, and the decoding loop is left as soon as the count reaches the
\* budget.
C18_CountWithinBudget ==
    \A t \in Threads :
        /\ th[t].pc \notin {"idle", "start"}
               => th[t].cUnit.numInsts <= th[t].numMaxInsts
        /\ th[t].pc = "decode" => th[t].cUnit.numInsts < th[t].numMaxInsts

---------------------------------------------------------------------------
(* The blocks of the method builder during and after splitting.            *)

RECURSIVE ScanAll(_)
\* The first pass run to its end on a method: lines 504-535.
ScanAll(s) ==
    IF ScanGoesOn(s) /\ Len(s.firstBlock.insns) < MaxNodes
        THEN ScanAll(ScanOne(s))
        ELSE s

\* The code nodes the first pass makes for a method, in the order made.
FirstPassNodes(method) == ScanAll(EnterMethod(method)).firstBlock.insns

\* The places (block, position) of the block list that hold the node n.
PlacesOf(n) ==
    {<<j, k>> \in (1..Len(mb.blockList))
                     \X (1..Len(FirstPassNodes(mb.method))) :
        k <= Len(mb.blockList[j].insns) /\ mb.blockList[j].insns[k] = n}

\* The blocks that start at the offset after the last instruction of block j.
BlocksAfter(j) ==
    {k \in 1..Len(mb.blockList) :
        mb.blockList[k].insns[1].offset
            = MLastInsn(j).offset + MLastInsn(j).width}

\* C19: from the start of the splitting pass until the arena is reset,
\* every code node of the first pass is in exactly one block, every block
\* is a non-empty run of
\* instructions that follow one another in the code, the blocks are in the
\* list in program order, and a block has a fallThrough edge exactly when
\* a block was split off at its end and its last instruction is not an
\* unconditional branch; that edge leads to the block split off.
C19_SplitPartitions ==
    mb.pc \notin {"none", "scan", "done"} =>
        LET list == mb.blockList
            nodes == FirstPassNodes(mb.method)
        IN  /\ \A p \in 1..Len(nodes) : Cardinality(PlacesOf(nodes[p])) = 1
            /\ \A j \in 1..Len(list) :
                   /\ list[j].insns # << >>
                   /\ \A k \in 1..(Len(list[j].insns) - 1) :
                          list[j].insns[k + 1].offset
                              = list[j].insns[k].offset + list[j].insns[k].width
                   /\ \A k \in 1..Len(list[j].insns) :
                          PlacesOf(list[j].insns[k]) = {<<j, k>>}
                   /\ IF BlocksAfter(j) # {} /\ ~isUnconditionalBranch(MLastInsn(j))
                          THEN BlocksAfter(j) = {list[j].fallThrough}
                          ELSE list[j].fallThrough = 0
            /\ \A j \in 1..(Len(list) - 1) :
                   list[j].insns[1].offset < list[j + 1].insns[1].offset

\* The splitting pass has made three blocks of a body: one that ends in an
\* unconditional branch and has no fallThrough edge although a block starts
\* after it, and one that falls through to the block split off.
C19_Witness ==
    /\ mb.pc = "split"
    /\ mb.cUnitNumBlocks = 3
    /\ \E j \in 1..Len(mb.blockList) :
           /\ isUnconditionalBranch(MLastInsn(j))
           /\ BlocksAfter(j) # {}
           /\ mb.blockList[j].fallThrough = 0
    /\ \E j \in 1..Len(mb.blockList) :
           /\ mb.blockList[j].fallThrough > j
           /\ Len(mb.blockList[mb.blockList[j].fallThrough].insns) >= 1

---------------------------------------------------------------------------
(* The first pass of the method builder.                                   *)

\* C20: every iteration of the method builder's first pass moves the code
\* position forward by at least one code unit, also on a packed-switch,
\* sparse-switch or array-data table, so that the pass ends for every
\* method body.
C20_FirstPassAdvances ==
    [][(mb.pc = "scan" /\ mb'.pc = "scan")
           => mb'.curOffset > mb.curOffset]_vars

\* The indices the first pass has handed to dvmSetBit up to now: bit 0 of
\* line 498 and those of every instruction decoded.
MarkedSoFar ==
    {0} \cup UNION {{ScanMarks(mb.method, mb.firstBlock.insns[k])[i] :
                        i \in 1..Len(ScanMarks(mb.method,
                                               mb.firstBlock.insns[k]))} :
                    k \in 1..Len(mb.firstBlock.insns)}

\* C21: during the first pass of the method builder every index handed to
\* dvmSetBit, and so every bit set in the block-start bit-set, lies in
\* 0..code length, whatever the terminator: a branch, or a statically
\* resolved invoke of a bytecode callee.
C21_MarkedBitsInRange ==
    mb.pc = "scan" =>
        /\ MarkedSoFar \subseteq 0..Len(mb.method.insns)
        /\ mb.bbStartAddr \subseteq 0..Len(mb.method.insns)

---------------------------------------------------------------------------
(* Edges to invoke chaining cells.                                         *)

\* Block e of thread t is an invoke chaining cell.
IsInvokeCell(t, e) ==
    /\ e \in 1..Len(th[t].blocks)
    /\ th[t].blocks[e].blockType = "CHAINING_CELL_INVOKE"

\* C22: in a built trace graph an edge of a bytecode block leads to an
\* invoke chaining cell only if it is the taken edge and the block's last
\* instruction is an invoke: the offset search links no branch and no
\* fallthrough to an invoke chaining cell made for an earlier block.
C22_InvokeCellOnlyForInvoke ==
    \A t \in Threads : GraphBuilt(t) =>
        \A b \in BytecodeBlocks(t) :
            /\ IsInvokeCell(t, th[t].blocks[b].taken)
                   => LastInsn(t, b).dalvikInsn.opCode \in InvokeOps
            /\ ~IsInvokeCell(t, th[t].blocks[b].fallThrough)

====
